---------------------------- MODULE Spec2Model ----------------------------
(***************************************************************************)
(* RaceBox download tool: frame reassembly, checksum validation, record    *)
(* decoding and the download controller of connect_and_download.           *)
(*                                                                         *)
(* Two variants of the program are modelled side by side:                  *)
(*   "simple"   - src/racebox.py      (CSV sink, parse_21/parse_01)        *)
(*   "extended" - src/src/racebox.py  (database sink, parse_message)       *)
(*                                                                         *)
(* Bytes are integers 0..255, byte strings are sequences of bytes.         *)
(* A float obtained by a division n / d is kept as the pair <<n, d>>.      *)
(***************************************************************************)
EXTENDS Integers, Sequences, FiniteSets, TLC

(***************************************************************************)
(* Bounds of the model                                                     *)
(***************************************************************************)
\* longest stream of frames the device sends in the reassembly specification
MaxFrames == 2
\* largest record count announced in the counted-download scenarios
MaxN == 2
\* largest size of a partial notification chunk (a chunk may also carry
\* everything that is still in flight)
MaxChunk == 3

Variants == {"simple", "extended"}

(***************************************************************************)
(* Python byte-string primitives                                           *)
(***************************************************************************)
Min(a, b) == IF a < b THEN a ELSE b

Max(a, b) == IF a > b THEN a ELSE b

\* s[lo:hi] with 0 <= lo, 0 <= hi: indices are clamped, never an error
PySlice(s, lo, hi) == SubSeq(s, Min(lo, Len(s)) + 1, Min(hi, Len(s)))

\* s[lo:]
PyFrom(s, lo) == SubSeq(s, Min(lo, Len(s)) + 1, Len(s))

\* s[lo:-k], k > 0
PySliceNeg(s, lo, k) == SubSeq(s, Min(lo, Len(s)) + 1, Max(Len(s) - k, 0))

\* always true; used to have TLC evaluate x here and now, which
\* keeps the evaluation of a long loop shallow
Evaluated(x) == x = x

RECURSIVE BitAnd(_, _)
\* x & y on non-negative integers
BitAnd(x, y) ==
    IF x = 0 \/ y = 0 THEN 0
    ELSE (x % 2) * (y % 2) + 2 * BitAnd(x \div 2, y \div 2)

\* x & 0xFF of a non-negative integer: its low eight bits
Low8(x) == x % 256

\* a plausible slip: the masked bits are not shifted down
ShiftRightForgets(x, n) == x

RECURSIVE ShiftRight(_, _)
\* x >> n
ShiftRight(x, n) == IF n = 0 THEN x ELSE ShiftRight(x \div 2, n - 1)

RECURSIVE Pow2(_)
Pow2(n) == IF n = 0 THEN 1 ELSE 2 * Pow2(n - 1)

RECURSIVE LittleEndian(_)
\* the unsigned little-endian value of a byte string
LittleEndian(b) ==
    IF b = <<>> THEN 0 ELSE Head(b) + 256 * LittleEndian(Tail(b))

\* struct '<B', '<H': unsigned
Unsigned(b) == LittleEndian(b)

\* An unsigned 32-bit integer n is kept as <<n \div 65536, n % 65536>>:
\* the integers of TLC are signed and 32 bits wide
U32(n) == <<n \div 65536, n % 65536>>

\* struct '<I'
Unsigned32(b) == <<LittleEndian(SubSeq(b, 3, 4)), LittleEndian(SubSeq(b, 1, 2))>>

\* struct '<h', '<i': two's complement of the width of b
Signed(b) ==
    LET n == Len(b)
    IN  IF b[n] >= 128
        THEN LittleEndian(SubSeq(b, 1, n - 1)) + Pow2(8 * (n - 1)) * (b[n] - 256)
        ELSE LittleEndian(b)

\* Python's None; a record tuple is never empty, so "if first_record:" is
\* first_record # None
None == <<>>

(***************************************************************************)
(* validate_checksum                                                       *)
(***************************************************************************)
\* ck_a = (ck_a + byte) & 0xFF; ck_b = (ck_b + ck_a) & 0xFF
ChecksumStep(ck, byte) ==
    LET ck_a == Low8(ck[1] + byte)
    IN  <<ck_a, Low8(ck[2] + ck_a)>>

RECURSIVE ChecksumRange(_, _, _, _)
\* the loop body applied to bytes[lo], ..., bytes[hi] in this order, from
\* ck; the range is halved to keep the evaluation shallow
ChecksumRange(bytes, lo, hi, ck) ==
    IF lo > hi THEN ck
    ELSE IF lo = hi THEN ChecksumStep(ck, bytes[lo])
    ELSE LET mid == (lo + hi) \div 2
             first == ChecksumRange(bytes, lo, mid, ck)
         IN  IF Evaluated(first)
             THEN ChecksumRange(bytes, mid + 1, hi, first)
             ELSE first

\* ck_a, ck_b = 0, 0; for byte in bytes: ...
ChecksumLoop(bytes) == ChecksumRange(bytes, 1, Len(bytes), <<0, 0>>)

\* a plausible slip: the sync bytes enter the sums (buffer[:-2])
validate_checksum_with_sync(buffer) ==
    LET ck == ChecksumLoop(PySliceNeg(buffer, 0, 2))
    IN  ck[1] = buffer[Len(buffer) - 1] /\ ck[2] = buffer[Len(buffer)]

\* a plausible slip: only ck_a is compared
validate_checksum_only_a(buffer) ==
    LET ck == ChecksumLoop(PySliceNeg(buffer, 2, 2))
    IN  ck[1] = buffer[Len(buffer) - 1]

validate_checksum(buffer) ==
    LET ck == ChecksumLoop(PySliceNeg(buffer, 2, 2))
    IN  ck[1] = buffer[Len(buffer) - 1] /\ ck[2] = buffer[Len(buffer)]

(***************************************************************************)
(* struct.unpack of the 80-byte record payload                             *)
(***************************************************************************)
\* '<I H B B B B B B I i B B B B i i i i I I i i I I H B B h h h h h h'
RecordFormat ==
    << "I", "H", "B", "B", "B", "B", "B", "B", "I", "i", "B", "B", "B", "B",
       "i", "i", "i", "i", "I", "I", "i", "i", "I", "I", "H", "B", "B",
       "h", "h", "h", "h", "h", "h" >>

\* standard sizes of the '<' byte order: no padding between the fields
FormatSize(c) ==
    CASE c = "B" -> 1
      [] c \in {"H", "h"} -> 2
      [] c \in {"I", "i"} -> 4

\* every field read as an unsigned number
FormatValueUnsigned(c, b) ==
    IF c = "I" THEN Unsigned32(b) ELSE Unsigned(b)

FormatValue(c, b) ==
    CASE c \in {"h", "i"} -> Signed(b)
      [] c = "I" -> Unsigned32(b)
      [] OTHER -> Unsigned(b)

RECURSIVE SizeOfRange(_, _, _)
\* the size of the fields fmt[lo], ..., fmt[hi]
SizeOfRange(fmt, lo, hi) ==
    IF lo > hi THEN 0
    ELSE IF lo = hi THEN FormatSize(fmt[lo])
    ELSE LET mid == (lo + hi) \div 2
         IN  SizeOfRange(fmt, lo, mid) + SizeOfRange(fmt, mid + 1, hi)

\* struct.calcsize
CalcSize(fmt) == SizeOfRange(fmt, 1, Len(fmt))

\* the offset of field i: the fields before it, one after the other
FieldOffset(fmt, i) == SizeOfRange(fmt, 1, i - 1)

\* the layout of a format: its size and the offset of each field
Layout(fmt) ==
    [ size |-> CalcSize(fmt),
      offset |-> [i \in 1..Len(fmt) |-> FieldOffset(fmt, i)] ]

RecordLayout == Layout(RecordFormat)

CountFormat == <<"I">>

CountLayout == Layout(CountFormat)

\* struct.unpack(fmt, data): struct.error unless len(data) == calcsize(fmt)
UnpackRaises(layout, data) == Len(data) # layout.size

Unpack(fmt, layout, data) ==
    [ i \in 1..Len(fmt) |->
        FormatValue(fmt[i],
                    SubSeq(data, layout.offset[i] + 1,
                           layout.offset[i] + FormatSize(fmt[i]))) ]

\* parsed_data[i], with Python's index from 0
At(parsed_data, i) == parsed_data[i + 1]

\* x / d: a float, kept as numerator and denominator
Div(x, d) == <<x, d>>

(***************************************************************************)
(* parse_21_message, parse_01_message (simple variant)                     *)
(***************************************************************************)
SimpleRecord(parsed_data) ==
    [ iTOW       |-> At(parsed_data, 0),
      Year       |-> At(parsed_data, 1),
      Month      |-> At(parsed_data, 2),
      Day        |-> At(parsed_data, 3),
      Hour       |-> At(parsed_data, 4),
      Minute     |-> At(parsed_data, 5),
      Second     |-> At(parsed_data, 6),
      Longitude  |-> Div(At(parsed_data, 14), 10000000),
      Latitude   |-> Div(At(parsed_data, 15), 10000000),
      WGSAltitude |-> Div(At(parsed_data, 16), 1000),
      Speed      |-> Div(At(parsed_data, 20), 1000),
      Heading    |-> Div(At(parsed_data, 21), 100000),
      GForceX    |-> Div(At(parsed_data, 27), 1000),
      GForceY    |-> Div(At(parsed_data, 28), 1000),
      GForceZ    |-> Div(At(parsed_data, 29), 1000),
      RotationRateX |-> Div(At(parsed_data, 30), 100),
      RotationRateY |-> Div(At(parsed_data, 31), 100),
      RotationRateZ |-> Div(At(parsed_data, 32), 100) ]

\* the result of a call: either an exception or a value
Raised == [raised |-> TRUE]

Returned(v) == [raised |-> FALSE, value |-> v]

parse_21_message(packet) ==
    LET payload == PySlice(packet, 6, 86)
        data == PySlice(payload, 0, 80)
    IN  IF UnpackRaises(RecordLayout, data) THEN Raised
        ELSE Returned(SimpleRecord(Unpack(RecordFormat, RecordLayout, data)))

\* a plausible slip: the live decoder reads the payload one byte late
parse_01_message_late(packet) ==
    LET payload == PySlice(packet, 7, 87)
        data == PySlice(payload, 0, 80)
    IN  IF UnpackRaises(RecordLayout, data) THEN Raised
        ELSE Returned(SimpleRecord(Unpack(RecordFormat, RecordLayout, data)))

parse_01_message(packet) ==
    LET payload == PySlice(packet, 6, 86)
        data == PySlice(payload, 0, 80)
    IN  IF UnpackRaises(RecordLayout, data) THEN Raised
        ELSE Returned(SimpleRecord(Unpack(RecordFormat, RecordLayout, data)))

(***************************************************************************)
(* parse_message (extended variant) and its flag masks                     *)
(***************************************************************************)
VALID_DATE_MASK == 1
VALID_TIME_MASK == 2
FULLY_RESOLVED_MASK == 4
VALID_MAG_DECLINATION_MASK == 8
VALID_FIX_MASK == 1
DIFFERENTIAL_CORRECTIONS_MASK == 2
POWER_STATE_MASK == 28
VALID_HEADING_MASK == 32
CARRIER_PHASE_RANGE_SOLUTION_MASK == 192
AVAILABLE_CONFIRMATION_MASK == 32
CONFIRMED_UTC_DATE_MASK == 64
CONFIRMED_UTC_TIME_MASK == 128
INVALID_LAT_LON_MASK == 1
DIFFERENTIAL_CORRECTION_AGE_MASK == 30
VOLTAGE_MASK == 255

\* uuid.uuid1() taken once when the module is loaded
time_uuid == "time_uuid"

ValidityFlags(b) ==
    [ ValidDate |-> BitAnd(b, VALID_DATE_MASK) # 0,
      ValidTime |-> BitAnd(b, VALID_TIME_MASK) # 0,
      FullyResolved |-> BitAnd(b, FULLY_RESOLVED_MASK) # 0,
      ValidMagneticDeclination |-> BitAnd(b, VALID_MAG_DECLINATION_MASK) # 0 ]

FixStatusFlags(b) ==
    [ ValidFix |-> BitAnd(b, VALID_FIX_MASK) # 0,
      DifferentialCorrectionsApplied |->
          BitAnd(b, DIFFERENTIAL_CORRECTIONS_MASK) # 0,
      PowerState |-> ShiftRight(BitAnd(b, POWER_STATE_MASK), 2),
      ValidHeading |-> BitAnd(b, VALID_HEADING_MASK) # 0,
      CarrierPhaseRangeSolution |->
          ShiftRight(BitAnd(b, CARRIER_PHASE_RANGE_SOLUTION_MASK), 6) ]

DateTimeFlags(b) ==
    [ AvailableConfirmation |-> BitAnd(b, AVAILABLE_CONFIRMATION_MASK) # 0,
      ConfirmedUTCDate |-> BitAnd(b, CONFIRMED_UTC_DATE_MASK) # 0,
      ConfirmedUTCTime |-> BitAnd(b, CONFIRMED_UTC_TIME_MASK) # 0 ]

LatLonFlags(b) ==
    [ InvalidLatLon |-> BitAnd(b, INVALID_LAT_LON_MASK) # 0,
      DifferentialCorrectionAge |->
          ShiftRight(BitAnd(b, DIFFERENTIAL_CORRECTION_AGE_MASK), 1) ]

\* the record tuple, in the order of the columns of ins_data
ExtendedRecord(parsed_data) ==
    << At(parsed_data, 0),
       time_uuid,
       At(parsed_data, 1),
       At(parsed_data, 2),
       At(parsed_data, 3),
       At(parsed_data, 4),
       At(parsed_data, 5),
       At(parsed_data, 6),
       ValidityFlags(At(parsed_data, 7)),
       At(parsed_data, 8),
       At(parsed_data, 9),
       At(parsed_data, 10),
       FixStatusFlags(At(parsed_data, 11)),
       DateTimeFlags(At(parsed_data, 12)),
       At(parsed_data, 13),
       Div(At(parsed_data, 14), 10000000),
       Div(At(parsed_data, 15), 10000000),
       Div(At(parsed_data, 16), 1000),
       Div(At(parsed_data, 17), 1000),
       Div(At(parsed_data, 18), 1000),
       Div(At(parsed_data, 19), 1000),
       Div(At(parsed_data, 20), 1000),
       Div(At(parsed_data, 21), 100000),
       At(parsed_data, 22),
       Div(At(parsed_data, 23), 100000),
       At(parsed_data, 24),
       LatLonFlags(At(parsed_data, 25)),
       Div(BitAnd(At(parsed_data, 26), VOLTAGE_MASK), 10),
       Div(At(parsed_data, 27), 1000),
       Div(At(parsed_data, 28), 1000),
       Div(At(parsed_data, 29), 1000),
       Div(At(parsed_data, 30), 100),
       Div(At(parsed_data, 31), 100),
       Div(At(parsed_data, 32), 100) >>

parse_message(packet) ==
    LET payload == PySlice(packet, 6, 86)
        data == PySlice(payload, 0, 80)
    IN  IF UnpackRaises(RecordLayout, data) THEN Raised
        ELSE Returned(ExtendedRecord(Unpack(RecordFormat, RecordLayout,
                                            data)))

(***************************************************************************)
(* format_filename (extended variant)                                      *)
(***************************************************************************)
\* characters are their ASCII codes
Chr0 == 48

ChrUnderscore == 95

RECURSIVE Digits(_)
\* str(n) of a non-negative integer
Digits(n) ==
    IF n < 10 THEN <<Chr0 + n>> ELSE Digits(n \div 10) \o <<Chr0 + (n % 10)>>

\* f"{n:02d}": at least two digits
TwoDigits(n) == IF n < 10 THEN <<Chr0, Chr0 + n>> ELSE Digits(n)

\* in_record[2..7] are Year, Month, Day, Hour, Minute, Second
Timestamp(in_record) ==
    Digits(At(in_record, 2)) \o TwoDigits(At(in_record, 3))
        \o TwoDigits(At(in_record, 4)) \o TwoDigits(At(in_record, 5))
        \o TwoDigits(At(in_record, 6)) \o TwoDigits(At(in_record, 7))

\* f"{first_timestamp}_{last_timestamp}"
format_filename(in_first_record, in_last_record) ==
    Timestamp(in_first_record) \o <<ChrUnderscore>>
        \o Timestamp(in_last_record)

(***************************************************************************)
(* format_filename_from_first_record, save_to_csv (simple variant)         *)
(***************************************************************************)
\* the timestamp part of the name: f"{year}{month}{day}_{hour}{minute}{second}"
format_filename_from_first_record(first_record) ==
    Digits(first_record.Year) \o TwoDigits(first_record.Month)
        \o TwoDigits(first_record.Day) \o <<ChrUnderscore>>
        \o TwoDigits(first_record.Hour) \o TwoDigits(first_record.Minute)
        \o TwoDigits(first_record.Second)

\* what save_to_csv adds to the sink: nothing for an empty list
save_to_csv(data_list) ==
    IF data_list # <<>>
    THEN << [ kind |-> "csv",
              file_name |-> format_filename_from_first_record(data_list[1]),
              rows |-> data_list ] >>
    ELSE <<>>

(***************************************************************************)
(* notification_handler of connect_and_download                            *)
(*                                                                         *)
(* The closure variables of the handler are the fields of a record h:      *)
(*   buffer, session_data, total_records, download_complete,               *)
(*   session_num, first_record, last_record, session_start_time            *)
(*           (the program's variables)                                     *)
(*   sink    what insert_db was given by the handler                       *)
(*   output  the lines printed or logged by the handler                    *)
(*   log     the frames dispatched and removed from the buffer, each with  *)
(*           the offset of its first byte in the byte stream and its size  *)
(*   consumed the number of bytes removed from the buffer so far           *)
(*   split   some call returned with a part of a frame left in the buffer  *)
(*   status  how the call ended: "returned", "raised" (an exception left   *)
(*           the handler) or "hung" (the while loop never ends)            *)
(***************************************************************************)
SYNC == <<181, 98>>

MESSAGE_CLASS == 255

ID_DOWNLOAD_START == 35

ID_HISTORY == 33

ID_LIVE == 1

ID_ACK == 2

ID_NACK == 3

ID_STATE_CHANGE == 38

\* the smallest buffer the while loop looks at
MIN_PACKET == 8

\* a plausible slip: the handler keeps only the newest chunk
ExtendForgets(buffer, data) == data

\* buffer.extend(data)
Extend(buffer, data) == buffer \o data

\* a plausible slip: only the payload and the checksum are removed
TrimKeepsHeader(buffer, full_packet_length) ==
    PyFrom(buffer, full_packet_length - 6)

\* buffer = buffer[full_packet_length:]
Trim(buffer, full_packet_length) == PyFrom(buffer, full_packet_length)

\* struct.unpack('<H', buffer[4:6])[0] + 8
FullPacketLength(buffer) == Unsigned(PySlice(buffer, 4, 6)) + 8

\* an exception leaves the handler: what was assigned so far is kept
Raise(h) == [h EXCEPT !.status = "raised"]

Say(h, line) == [h EXCEPT !.output = Append(@, line)]

\* a plausible slip: the event is never set
SetCompleteForgets(h) == h

\* download_complete.set()
SetComplete(h) == [h EXCEPT !.download_complete = TRUE]

\* total_records = struct.unpack('<I', buffer[6:10])[0]
DownloadStart(h) ==
    LET data == PySlice(h.buffer, 6, 10)
    IN  IF UnpackRaises(CountLayout, data) THEN Raise(h)
        ELSE Say([h EXCEPT !.total_records =
                               At(Unpack(CountFormat, CountLayout, data), 0)],
                 "Expecting records")

\* src/racebox.py: the body of "if message_class == 0xFF"
DispatchSimple(h, message_id, packet) ==
    CASE message_id = ID_DOWNLOAD_START -> DownloadStart(h)
      [] message_id = ID_HISTORY ->
            LET r == parse_21_message(packet)
            IN  IF r.raised THEN Raise(h)
                ELSE [h EXCEPT !.session_data = Append(@, r.value)]
      [] message_id = ID_LIVE ->
            LET r == parse_01_message(packet)
            IN  IF r.raised THEN Raise(h)
                ELSE [h EXCEPT !.session_data = Append(@, r.value)]
      [] message_id = ID_ACK -> SetComplete(Say(h, "Download complete."))
      [] message_id = ID_NACK -> Say(h, "NACK received")
      [] message_id = ID_STATE_CHANGE ->
            Say(h, "Standalone recording state changed.")
      [] OTHER -> h

\* every record taken for the first of its session
AppendExtendedRenews(h, record) ==
    [h EXCEPT !.session_data = Append(@, record),
              !.first_record = record,
              !.last_record = record]

\* session_data.append(record); first_record and last_record follow
AppendExtended(h, record) ==
    [h EXCEPT !.session_data = Append(@, record),
              !.first_record = IF @ = None THEN record ELSE @,
              !.last_record = record]

\* datetime.now(): time is counted in bytes received so far, so that a
\* later handler call reads a later time
Now(h) == h.consumed + Len(h.buffer)

\* a plausible slip: every boundary counted as a session
StateChangeExtendedCounts(h) ==
    [h EXCEPT !.session_num = @ + 1,
              !.sink = Append(@, [ kind |-> "imp",
                                   imp_stamp |-> time_uuid,
                                   file_name |-> <<>> ]),
              !.session_start_time = Now(h),
              !.first_record = None]

\* the 0x26 branch of src/src/racebox.py
StateChangeExtended(h) ==
    LET flushed ==
            IF h.first_record # None
            THEN Say([h EXCEPT
                        !.session_num = @ + 1,
                        !.sink = Append(@,
                            [ kind |-> "imp",
                              imp_stamp |-> time_uuid,
                              file_name |-> format_filename(h.first_record,
                                                            h.last_record) ])],
                     "session processed")
            ELSE h
    IN  [flushed EXCEPT !.session_start_time = Now(flushed),
                        !.first_record = None]

\* src/src/racebox.py: the body of "if message_class == 0xFF"
DispatchExtended(h, message_id, packet) ==
    CASE message_id = ID_DOWNLOAD_START -> DownloadStart(h)
      [] message_id = ID_HISTORY ->
            LET r == parse_message(packet)
            IN  IF r.raised THEN Raise(h) ELSE AppendExtended(h, r.value)
      [] message_id = ID_LIVE ->
            LET r == parse_message(packet)
            IN  IF r.raised THEN Raise(h) ELSE AppendExtended(h, r.value)
      [] message_id = ID_ACK -> SetComplete(Say(h, "download finished"))
      [] message_id = ID_STATE_CHANGE -> StateChangeExtended(h)
      [] OTHER -> h

\* the body of "if validate_checksum(...)"
Dispatch(v, h, message_class, message_id, packet) ==
    IF message_class # MESSAGE_CLASS THEN h
    ELSE IF v = "simple" THEN DispatchSimple(h, message_id, packet)
    ELSE DispatchExtended(h, message_id, packet)

\* the last statement of the body of "if validate_checksum(...)": the
\* dispatched frame leaves the buffer
Consume(h, full_packet_length) ==
    [h EXCEPT !.buffer = Trim(@, full_packet_length),
              !.log = Append(@, [ off |-> h.consumed,
                                  len |-> full_packet_length ]),
              !.consumed = @ + full_packet_length]

\* an iteration of the while loop that assigns nothing and does not break:
\* the next iteration sees the same buffer, the loop never ends
Hang(h) == [h EXCEPT !.status = "hung"]

RECURSIVE ProcessBuffer(_, _)
\* while len(buffer) >= 8: ...
ProcessBuffer(v, h) ==
    IF Len(h.buffer) < MIN_PACKET THEN h
    ELSE IF PySlice(h.buffer, 0, 2) # SYNC
    THEN \* there is no else branch
         Hang(h)
    ELSE LET message_class == h.buffer[3]
             message_id == h.buffer[4]
             full_packet_length == FullPacketLength(h.buffer)
         IN  IF Len(h.buffer) < full_packet_length THEN h
             ELSE LET packet == PySlice(h.buffer, 0, full_packet_length)
                  IN  IF validate_checksum(packet)
                      THEN LET d == Dispatch(v, h, message_class,
                                             message_id, packet)
                           IN  IF d.status = "raised" THEN d
                               ELSE ProcessBuffer(v,
                                        Consume(d, full_packet_length))
                      ELSE \* the buffer is trimmed only inside the if
                           Hang(h)

notification_handler(v, h, data) ==
    LET r == ProcessBuffer(v, [h EXCEPT !.buffer = Extend(@, data),
                                        !.status = "returned"])
    IN  [r EXCEPT !.split = @ \/ (r.status = "returned" /\ r.buffer # <<>>)]

\* the closure variables when connect_and_download starts
InitialClosure ==
    [ buffer |-> <<>>,
      session_data |-> <<>>,
      total_records |-> U32(0),
      download_complete |-> FALSE,
      session_num |-> 0,
      first_record |-> None,
      last_record |-> None,
      session_start_time |-> 0,
      sink |-> <<>>,
      output |-> <<>>,
      log |-> <<>>,
      consumed |-> 0,
      split |-> FALSE,
      status |-> "returned" ]

(***************************************************************************)
(* The device: the frames it can send (wire format)                        *)
(*   B5 62 | class | id | length:u16le | payload | ckA | ckB               *)
(***************************************************************************)
RECURSIVE WireChecksumFrom(_, _, _, _)
\* ckA, ckB after the bytes at the offsets lo .. hi-1 of frame (offsets from
\* 0), starting from ck: ckA = (ckA + b) mod 256, then
\* ckB = (ckB + ckA) mod 256; the range is halved to keep the evaluation
\* shallow
WireChecksumFrom(frame, lo, hi, ck) ==
    IF hi <= lo THEN ck
    ELSE IF hi = lo + 1
    THEN LET ckA == (ck[1] + frame[lo + 1]) % 256
         IN  <<ckA, (ck[2] + ckA) % 256>>
    ELSE LET mid == (lo + hi) \div 2
             first == WireChecksumFrom(frame, lo, mid, ck)
         IN  IF Evaluated(first)
             THEN WireChecksumFrom(frame, mid, hi, first)
             ELSE first

\* ckA, ckB over frame[2 .. i), both starting at 0
WireChecksum(frame, i) == WireChecksumFrom(frame, 2, i, <<0, 0>>)

Zeros(n) == [i \in 1..n |-> 0]

WireFrame(class, id, payload) ==
    LET head == SYNC \o <<class, id, Len(payload) % 256, Len(payload) \div 256>>
                     \o payload
    IN  head \o WireChecksum(head, Len(head))

\* the last checksum byte is damaged on the way
Damaged(frame) == [frame EXCEPT ![Len(frame)] = (@ + 1) % 256]

\* an 80-byte record payload: iTOW k, 2024-12-05 10:55:k, longitude
\* 123456789 (0x075BCD15), everything else 0
RecordPayload(k) ==
    <<k, 0, 0, 0, 232, 7, 12, 5, 10, 55, k, 0>> \o Zeros(12)
        \o <<21, 205, 91, 7>> \o Zeros(52)

\* a frame is named by a kind and a number
FrameBytes(f) ==
    CASE f[1] = "start" -> WireFrame(MESSAGE_CLASS, ID_DOWNLOAD_START,
                                     <<f[2], 0, 0, 0>>)
      [] f[1] = "hist" -> WireFrame(MESSAGE_CLASS, ID_HISTORY,
                                    RecordPayload(f[2]))
      [] f[1] = "live" -> WireFrame(MESSAGE_CLASS, ID_LIVE,
                                    RecordPayload(f[2]))
      [] f[1] = "ack" -> WireFrame(MESSAGE_CLASS, ID_ACK, <<>>)
      [] f[1] = "nack" -> WireFrame(MESSAGE_CLASS, ID_NACK, <<>>)
      [] f[1] = "boundary" -> WireFrame(MESSAGE_CLASS, ID_STATE_CHANGE, <<>>)
      [] f[1] = "other_class" -> WireFrame(1, ID_ACK, <<f[2]>>)
      [] f[1] = "other_id" -> WireFrame(MESSAGE_CLASS, 119, <<>>)
      [] f[1] = "bad_ack" -> Damaged(WireFrame(MESSAGE_CLASS, ID_ACK, <<>>))
      [] f[1] = "bad_hist" -> Damaged(WireFrame(MESSAGE_CLASS, ID_HISTORY,
                                                RecordPayload(f[2])))
      [] f[1] = "bad_start" -> Damaged(WireFrame(MESSAGE_CLASS,
                                                 ID_DOWNLOAD_START,
                                                 <<f[2], 0, 0, 0>>))
      [] f[1] = "bad_live" -> Damaged(WireFrame(MESSAGE_CLASS, ID_LIVE,
                                                RecordPayload(f[2])))
      [] f[1] = "bad_nack" -> Damaged(WireFrame(MESSAGE_CLASS, ID_NACK, <<>>))
      [] f[1] = "bad_boundary" -> Damaged(WireFrame(MESSAGE_CLASS,
                                                    ID_STATE_CHANGE, <<>>))
      [] f[1] = "bad_other_class" -> Damaged(WireFrame(1, ID_ACK, <<f[2]>>))
      [] f[1] = "bad_other_id" -> Damaged(WireFrame(MESSAGE_CLASS, 119, <<>>))
      [] f[1] = "short_start" -> WireFrame(MESSAGE_CLASS, ID_DOWNLOAD_START,
                                           <<>>)
      [] f[1] = "short_hist" -> WireFrame(MESSAGE_CLASS, ID_HISTORY,
                                          <<f[2], 0>>)
      [] f[1] = "noise" -> <<f[2]>>

\* complete, with the sync bytes, the length of its payload and its checksum
WellFormedKinds ==
    { "start", "hist", "live", "ack", "nack", "boundary", "other_class",
      "other_id", "short_start", "short_hist" }

\* complete but for the checksum
BadChecksumKinds ==
    { "bad_ack", "bad_hist", "bad_start", "bad_live", "bad_nack",
      "bad_boundary", "bad_other_class", "bad_other_id" }

FrameMenu ==
    { <<"start", 2>>, <<"hist", 1>>, <<"live", 2>>, <<"ack", 0>>,
      <<"boundary", 0>>, <<"other_class", 7>>, <<"other_id", 0>>,
      <<"bad_ack", 0>>, <<"bad_hist", 1>>, <<"short_start", 0>>,
      <<"short_hist", 1>>, <<"noise", 0>> }

RECURSIVE SeqsUpTo(_, _)
\* the sequences over S of length at most n
SeqsUpTo(S, n) ==
    IF n = 0 THEN {<<>>}
    ELSE LET shorter == SeqsUpTo(S, n - 1)
         IN  shorter \cup {Append(q, x) : q \in shorter, x \in S}

RECURSIVE Flatten(_)
Flatten(fs) ==
    IF fs = <<>> THEN <<>> ELSE FrameBytes(Head(fs)) \o Flatten(Tail(fs))

\* any stream of at most MaxFrames frames of the menu
FreeStreams == SeqsUpTo(FrameMenu, MaxFrames)

\* start announcing n, then the records 1..n, then the acknowledgement
CountedDownload(n) ==
    <<<<"start", n>>>> \o [k \in 1..n |-> <<"hist", k>>] \o <<<<"ack", 0>>>>

\* two records, a boundary, one record, the acknowledgement
BoundaryDownload ==
    << <<"hist", 1>>, <<"hist", 2>>, <<"boundary", 0>>, <<"hist", 3>>,
       <<"ack", 0>> >>

\* frames of every kind after the acknowledgement
TalkativeDownload ==
    << <<"ack", 0>>, <<"start", 1>>, <<"live", 1>>, <<"boundary", 0>>,
       <<"nack", 0>>, <<"ack", 0>> >>

\* the device refuses after one record: a negative acknowledgement
NackDownload == << <<"start", 2>>, <<"hist", 1>>, <<"nack", 0>> >>

\* boundaries and no record: nothing was recorded
QuietDownload == << <<"boundary", 0>>, <<"boundary", 0>>, <<"ack", 0>> >>

\* boundaries with no record since the start or since the last boundary,
\* around a recording of two records
IdleDownload ==
    << <<"boundary", 0>>, <<"hist", 1>>, <<"hist", 2>>, <<"boundary", 0>>,
       <<"boundary", 0>>, <<"ack", 0>> >>

\* the device announces a download a second time, with another count
RestartDownload ==
    << <<"start", 2>>, <<"hist", 1>>, <<"start", 1>>, <<"hist", 2>>,
       <<"ack", 0>> >>

Downloads ==
    {CountedDownload(n) : n \in 0..MaxN}
        \cup {BoundaryDownload, TalkativeDownload, NackDownload,
              QuietDownload, IdleDownload, RestartDownload}

(***************************************************************************)
(* connect_and_download                                                    *)
(***************************************************************************)
DOWNLOAD_COMMAND == <<181, 98, 255, 35, 0, 0, 34, 101>>

VARIABLES
    variant,            \* which program runs
    frames,             \* the frames the device sends, by name
    stream,             \* their bytes
    pos,                \* how many bytes of stream were delivered
    link,               \* "down", "up" or "lost" (the device went away)
    subscribed,         \* notifications of TX_CHAR_UUID reach the handler
    pc,                 \* the statement connect_and_download is at
    flow,               \* "normal", "exception" or "return"
    rx_written,         \* what was written to RX_CHAR_UUID
    trace,              \* the client calls that completed, in order
    buffer, session_data, total_records, download_complete,
    session_num, first_record, last_record, session_start_time,
    sink, output, log, consumed, split, status,
    call,               \* a function called on its own, with its argument
    result,             \* <<>>, or <<v>> once the call has returned v
    scan_pc,            \* the statement scan_and_connect is at
    mode,               \* "download", "monitor" or "measure"
    memory,             \* the content of DEVICE_MEMORY_FILE, None without
    last_device,        \* the local variables of scan_and_connect
    device,
    racebox_devices,    \* the devices the for loop has not reached yet
    scan_trace,         \* what scan_and_connect has called, in order
    current_record, first_message, reference_point, points
                        \* the variables of measure_distances

closure_vars ==
    << buffer, session_data, total_records, download_complete, session_num,
       first_record, last_record, session_start_time, sink, output, log,
       consumed, split, status >>

device_vars == <<variant, frames, stream, pos>>

control_vars == <<link, subscribed, pc, flow, rx_written, trace>>

call_vars == <<call, result>>

scan_vars ==
    << scan_pc, mode, memory, last_device, device, racebox_devices,
       scan_trace >>

measure_vars == <<current_record, first_message, reference_point, points>>

vars ==
    << device_vars, control_vars, closure_vars, call_vars, scan_vars,
       measure_vars >>

Closure ==
    [ buffer |-> buffer,
      session_data |-> session_data,
      total_records |-> total_records,
      download_complete |-> download_complete,
      session_num |-> session_num,
      first_record |-> first_record,
      last_record |-> last_record,
      session_start_time |-> session_start_time,
      sink |-> sink,
      output |-> output,
      log |-> log,
      consumed |-> consumed,
      split |-> split,
      status |-> status ]

SetClosure(h) ==
    /\ buffer' = h.buffer
    /\ session_data' = h.session_data
    /\ total_records' = h.total_records
    /\ download_complete' = h.download_complete
    /\ session_num' = h.session_num
    /\ first_record' = h.first_record
    /\ last_record' = h.last_record
    /\ session_start_time' = h.session_start_time
    /\ sink' = h.sink
    /\ output' = h.output
    /\ log' = h.log
    /\ consumed' = h.consumed
    /\ split' = h.split
    /\ status' = h.status

SetClosureInit ==
    /\ buffer = InitialClosure.buffer
    /\ session_data = InitialClosure.session_data
    /\ total_records = InitialClosure.total_records
    /\ download_complete = InitialClosure.download_complete
    /\ session_num = InitialClosure.session_num
    /\ first_record = InitialClosure.first_record
    /\ last_record = InitialClosure.last_record
    /\ session_start_time = InitialClosure.session_start_time
    /\ sink = InitialClosure.sink
    /\ output = InitialClosure.output
    /\ log = InitialClosure.log
    /\ consumed = InitialClosure.consumed
    /\ split = InitialClosure.split
    /\ status = InitialClosure.status

\* the event loop runs one callback or one step of the coroutine at a time;
\* a handler that never returns stops all of them
Running == status # "hung"

InitDevice(streams) ==
    /\ variant \in Variants
    /\ frames \in streams
    /\ stream = Flatten(frames)
    /\ pos = 0

\* scan_and_connect is left out: connect_and_download is given its device
NoScan ==
    /\ scan_pc = "idle"
    /\ mode = "download"
    /\ memory = None
    /\ last_device = None
    /\ device = None
    /\ racebox_devices = <<>>
    /\ scan_trace = <<>>

\* measure_distances has not assigned its variables
NoMeasure ==
    /\ current_record = None
    /\ first_message = TRUE
    /\ reference_point = None
    /\ points = <<>>

\* no function is called on its own
NoCall ==
    /\ call = [fn |-> "none", arg |-> <<>>]
    /\ result = <<>>
    /\ NoScan
    /\ NoMeasure

\* connect_and_download is called
Init ==
    /\ NoCall
    /\ InitDevice(Downloads)
    /\ link = "down"
    /\ subscribed = FALSE
    /\ pc = "enter"
    /\ flow = "normal"
    /\ rx_written = <<>>
    /\ trace = <<>>
    /\ SetClosureInit

(***************************************************************************)
(* The transport                                                           *)
(***************************************************************************)
\* the sizes the next notification may have: a few bytes, or all in flight
ChunkSizes == LET rest == Len(stream) - pos
              IN  (1..Min(MaxChunk, rest)) \cup {rest}

\* the transport calls notification_handler(sender, data)
Notification(n) ==
    /\ Running
    /\ UNCHANGED <<call_vars, scan_vars, measure_vars>>
    /\ subscribed
    /\ link = "up"
    /\ pos < Len(stream)
    /\ pos' = pos + n
    /\ \E h \in {notification_handler(variant, Closure,
                                       SubSeq(stream, pos + 1, pos + n))} :
          SetClosure(h)
    /\ UNCHANGED <<variant, frames, stream, control_vars>>

\* the device goes out of range or is switched off
LinkLost ==
    /\ Running
    /\ UNCHANGED <<call_vars, scan_vars, measure_vars>>
    /\ link = "up"
    /\ pc \notin {"done", "raised", "returned"}
    /\ link' = "lost"
    /\ subscribed' = FALSE
    /\ UNCHANGED <<device_vars, pc, flow, rx_written, trace, closure_vars>>

(***************************************************************************)
(* The statements of connect_and_download                                  *)
(***************************************************************************)
\* client.disconnect(), also what BleakClient.__aexit__ does
Disconnected == IF link = "up" THEN "down" ELSE link

\* where an exception raised inside "async with" goes: src/racebox.py has
\* no handler, src/src/racebox.py logs it and runs its finally
Throw ==
    /\ pc' = IF variant = "simple" THEN "aexit" ELSE "finally"
    /\ flow' = IF variant = "simple" THEN "exception" ELSE flow

\* async with BleakClient(device) as client
Enter ==
    /\ Running
    /\ UNCHANGED <<call_vars, scan_vars, measure_vars>>
    /\ pc = "enter"
    /\ link' = "up"
    /\ pc' = "disconnect_first"
    /\ trace' = Append(trace, "connect")
    /\ UNCHANGED <<device_vars, subscribed, flow, rx_written, closure_vars>>

\* await client.disconnect()
DisconnectFirst ==
    /\ Running
    /\ UNCHANGED <<call_vars, scan_vars, measure_vars>>
    /\ pc = "disconnect_first"
    /\ link' = Disconnected
    /\ pc' = "connect"
    /\ trace' = Append(trace, "disconnect")
    /\ UNCHANGED <<device_vars, subscribed, flow, rx_written, closure_vars>>

\* await client.connect()
Connect ==
    /\ Running
    /\ UNCHANGED <<call_vars, scan_vars, measure_vars>>
    /\ pc = "connect"
    /\ IF link = "lost"
       THEN Throw /\ UNCHANGED <<link, trace>>
       ELSE /\ link' = "up"
            /\ pc' = "services"
            /\ trace' = Append(trace, "connect")
            /\ flow' = flow
    /\ UNCHANGED <<device_vars, subscribed, rx_written, closure_vars>>

\* if UART service not in client.services: return
Services ==
    /\ Running
    /\ UNCHANGED <<call_vars, scan_vars, measure_vars>>
    /\ pc = "services"
    /\ \E has_uart \in BOOLEAN :
          IF has_uart
          THEN pc' = "start_notify" /\ flow' = flow
          ELSE /\ pc' = IF variant = "simple" THEN "aexit" ELSE "finally"
               /\ flow' = "return"
    /\ UNCHANGED <<device_vars, link, subscribed, rx_written, trace,
                   closure_vars>>

\* await client.start_notify(TX_CHAR_UUID, notification_handler)
StartNotify ==
    /\ Running
    /\ UNCHANGED <<call_vars, scan_vars, measure_vars>>
    /\ pc = "start_notify"
    /\ IF link # "up"
       THEN Throw /\ UNCHANGED <<subscribed, trace>>
       ELSE /\ subscribed' = TRUE
            /\ pc' = "write"
            /\ trace' = Append(trace, "start_notify")
            /\ flow' = flow
    /\ UNCHANGED <<device_vars, link, rx_written, closure_vars>>

\* a plausible slip: the command is written before the subscription
WriteCommandEarly ==
    /\ Running
    /\ UNCHANGED <<call_vars, scan_vars, measure_vars>>
    /\ pc = "start_notify"
    /\ rx_written = <<>>
    /\ link = "up"
    /\ rx_written' = Append(rx_written, DOWNLOAD_COMMAND)
    /\ trace' = Append(trace, "write")
    /\ UNCHANGED <<device_vars, link, subscribed, pc, flow, closure_vars>>

\* await client.write_gatt_char(RX_CHAR_UUID, DOWNLOAD_COMMAND)
WriteCommand ==
    /\ Running
    /\ UNCHANGED <<call_vars, scan_vars, measure_vars>>
    /\ pc = "write"
    /\ IF link # "up"
       THEN Throw /\ UNCHANGED <<rx_written, trace>>
       ELSE /\ rx_written' = Append(rx_written, DOWNLOAD_COMMAND)
            /\ pc' = "wait"
            /\ trace' = Append(trace, "write")
            /\ flow' = flow
    /\ UNCHANGED <<device_vars, link, subscribed, closure_vars>>

\* a plausible slip: the wait does not look at the event
WaitReturnsAtOnce ==
    /\ Running
    /\ UNCHANGED <<call_vars, scan_vars, measure_vars>>
    /\ pc = "wait"
    /\ pc' = "stop_notify"
    /\ trace' = Append(trace, "wait")
    /\ UNCHANGED <<device_vars, link, subscribed, flow, rx_written,
                   closure_vars>>

\* await download_complete.wait(): returns once the event is set
WaitReturn ==
    /\ Running
    /\ UNCHANGED <<call_vars, scan_vars, measure_vars>>
    /\ pc = "wait"
    /\ download_complete
    /\ pc' = "stop_notify"
    /\ trace' = Append(trace, "wait")
    /\ UNCHANGED <<device_vars, link, subscribed, flow, rx_written,
                   closure_vars>>

\* a plausible slip: stop_notify returns and the handler stays registered
StopNotifyKeepsHandler ==
    /\ Running
    /\ UNCHANGED <<call_vars, scan_vars, measure_vars>>
    /\ pc = "stop_notify"
    /\ IF link # "up"
       THEN Throw /\ UNCHANGED <<subscribed, trace>>
       ELSE /\ subscribed' = subscribed
            /\ pc' = IF variant = "simple" THEN "aexit" ELSE "finally"
            /\ trace' = Append(trace, "stop_notify")
            /\ flow' = flow
    /\ UNCHANGED <<device_vars, link, rx_written, closure_vars>>

\* await client.stop_notify(TX_CHAR_UUID)
StopNotify ==
    /\ Running
    /\ UNCHANGED <<call_vars, scan_vars, measure_vars>>
    /\ pc = "stop_notify"
    /\ IF link # "up"
       THEN Throw /\ UNCHANGED <<subscribed, trace>>
       ELSE /\ subscribed' = FALSE
            /\ pc' = IF variant = "simple" THEN "aexit" ELSE "finally"
            /\ trace' = Append(trace, "stop_notify")
            /\ flow' = flow
    /\ UNCHANGED <<device_vars, link, rx_written, closure_vars>>

\* src/src/racebox.py: finally: await client.disconnect()
Finally ==
    /\ Running
    /\ UNCHANGED <<call_vars, scan_vars, measure_vars>>
    /\ pc = "finally"
    /\ link' = Disconnected
    /\ subscribed' = FALSE
    /\ pc' = "aexit"
    /\ trace' = Append(trace, "disconnect")
    /\ UNCHANGED <<device_vars, flow, rx_written, closure_vars>>

\* the end of "async with": BleakClient.__aexit__ disconnects; a return or
\* an exception under way leaves connect_and_download here
Aexit ==
    /\ Running
    /\ UNCHANGED <<call_vars, scan_vars, measure_vars>>
    /\ pc = "aexit"
    /\ link' = Disconnected
    /\ subscribed' = FALSE
    /\ pc' = CASE flow = "exception" -> "raised"
               [] flow = "return" -> "returned"
               [] OTHER -> "save"
    /\ trace' = Append(trace, "disconnect")
    /\ UNCHANGED <<device_vars, flow, rx_written, closure_vars>>

\* src/racebox.py: if session_data: save_to_csv(session_data, device.name)
SaveSimple ==
    /\ Running
    /\ UNCHANGED <<call_vars, scan_vars, measure_vars>>
    /\ variant = "simple"
    /\ pc = "save"
    /\ sink' = sink \o save_to_csv(session_data)
    /\ pc' = "disconnect_last"
    /\ trace' = Append(trace, "save")
    /\ UNCHANGED <<device_vars, link, subscribed, flow, rx_written, buffer,
                   session_data, total_records, download_complete,
                   session_num, first_record, last_record,
                   session_start_time, output, log, consumed, split, status>>

\* src/src/racebox.py: if session_data: print(session_data[0]);
\* print(session_data[1]); then the map and the rows of ins_data
SaveExtended ==
    /\ Running
    /\ UNCHANGED <<call_vars, scan_vars, measure_vars>>
    /\ variant = "extended"
    /\ pc = "save"
    /\ IF session_data = <<>>
       THEN pc' = "done" /\ UNCHANGED <<sink, flow>>
       ELSE IF Len(session_data) < 2
       THEN \* IndexError, outside of any try
            pc' = "raised" /\ flow' = "exception" /\ UNCHANGED sink
       ELSE /\ sink' = Append(sink, [ kind |-> "data",
                                      rows |-> session_data ])
            /\ pc' = "done"
            /\ flow' = flow
    /\ trace' = Append(trace, "save")
    /\ UNCHANGED <<device_vars, link, subscribed, rx_written, buffer,
                   session_data, total_records, download_complete,
                   session_num, first_record, last_record,
                   session_start_time, output, log, consumed, split, status>>

\* src/racebox.py: the last await client.disconnect()
DisconnectLast ==
    /\ Running
    /\ UNCHANGED <<call_vars, scan_vars, measure_vars>>
    /\ pc = "disconnect_last"
    /\ link' = Disconnected
    /\ pc' = "done"
    /\ trace' = Append(trace, "disconnect")
    /\ UNCHANGED <<device_vars, subscribed, flow, rx_written, closure_vars>>

Step ==
    \/ Enter
    \/ DisconnectFirst
    \/ Connect
    \/ Services
    \/ StartNotify
    \/ WriteCommand
    \/ WaitReturn
    \/ StopNotify
    \/ Finally
    \/ Aexit
    \/ SaveSimple
    \/ SaveExtended
    \/ DisconnectLast

Next ==
    \/ \E n \in ChunkSizes : Notification(n)
    \/ LinkLost
    \/ Step

Spec == Init /\ [][Next]_vars

(***************************************************************************)
(* The reassembly specification: the handler alone, subscribed, with any   *)
(* stream of frames of the menu cut into chunks at any offsets             *)
(***************************************************************************)
InitFeed ==
    /\ NoCall
    /\ InitDevice(FreeStreams)
    /\ link = "up"
    /\ subscribed = TRUE
    /\ pc = "wait"
    /\ flow = "normal"
    /\ rx_written = <<DOWNLOAD_COMMAND>>
    /\ trace = <<"connect", "disconnect", "connect", "start_notify", "write">>
    /\ SetClosureInit

NextFeed == \E n \in ChunkSizes : Notification(n)

SpecFeed == InitFeed /\ [][NextFeed]_vars

\* one frame of every class and id of the menu with a wrong checksum
BadMenu ==
    { <<"bad_start", 1>>, <<"bad_hist", 2>>, <<"bad_live", 2>>,
      <<"bad_ack", 0>>, <<"bad_nack", 0>>, <<"bad_boundary", 0>>,
      <<"bad_other_class", 7>>, <<"bad_other_id", 0>> }

\* a download under way, a frame with a wrong checksum, and what the
\* device may send after it
BadStreams ==
    { before \o <<bad>> \o after :
        before \in { <<>>, << <<"start", 2>> >>,
                     << <<"start", 2>>, <<"hist", 1>> >> },
        bad \in BadMenu,
        after \in { <<>>, << <<"hist", 2>> >>, << <<"ack", 0>> >> } }

\* the handler fed streams with one bad frame, in chunks of any size
InitBad ==
    /\ NoCall
    /\ InitDevice(BadStreams)
    /\ link = "up"
    /\ subscribed = TRUE
    /\ pc = "wait"
    /\ flow = "normal"
    /\ rx_written = <<DOWNLOAD_COMMAND>>
    /\ trace = <<"connect", "disconnect", "connect", "start_notify", "write">>
    /\ SetClosureInit

SpecBad == InitBad /\ [][NextFeed]_vars

\* recordings with boundaries between them: records whose timestamps are
\* not in arrival order, boundaries with no record since the last one, a
\* recording still open at the end
SessionStreams ==
    { << <<"hist", 5>>, <<"hist", 2>>, <<"boundary", 0>>, <<"hist", 1>>,
         <<"hist", 7>>, <<"boundary", 0>> >>,
      << <<"hist", 1>>, <<"boundary", 0>>, <<"boundary", 0>>, <<"live", 2>>,
         <<"hist", 3>>, <<"boundary", 0>> >>,
      << <<"boundary", 0>>, <<"hist", 3>>, <<"boundary", 0>>, <<"hist", 1>>,
         <<"live", 2>>, <<"boundary", 0>> >>,
      << <<"hist", 1>>, <<"boundary", 0>>, <<"hist", 2>> >>,
      << <<"start", 2>>, <<"hist", 4>>, <<"boundary", 0>>, <<"ack", 0>> >> }

\* the handler fed recordings with boundaries, in chunks of any size
InitSessions ==
    /\ NoCall
    /\ InitDevice(SessionStreams)
    /\ link = "up"
    /\ subscribed = TRUE
    /\ pc = "wait"
    /\ flow = "normal"
    /\ rx_written = <<DOWNLOAD_COMMAND>>
    /\ trace = <<"connect", "disconnect", "connect", "start_notify", "write">>
    /\ SetClosureInit

SpecSessions == InitSessions /\ [][NextFeed]_vars

(***************************************************************************)
(* The liveness specification: the coroutine is scheduled whenever it can  *)
(* take a step (the asyncio event loop runs every ready task)              *)
(***************************************************************************)
SpecLive == Init /\ [][Next]_vars /\ WF_vars(Step)

(***************************************************************************)
(* The checksum specification: validate_checksum called on its own         *)
(***************************************************************************)
\* the length of the longest free byte string given to validate_checksum
MaxBytes == 5

\* the sequences over S of the lengths lo .. hi
SeqsBetween(S, lo, hi) == {q \in SeqsUpTo(S, hi) : Len(q) >= lo}

\* frame with one byte changed
Altered(frame, i, d) == [frame EXCEPT ![i] = (@ + d) % 256]

ChecksumFrames ==
    { FrameBytes(f) : f \in { <<"ack", 0>>, <<"start", 2>>,
                              <<"other_class", 7>>, <<"hist", 1>> } }

\* frames as the device builds them, the same with any one byte changed,
\* and short byte strings of every content
ChecksumInputs ==
    ChecksumFrames
        \cup UNION { { Altered(f, i, d) : i \in 1..Len(f), d \in {1, 128} } :
                     f \in ChecksumFrames }
        \cup SeqsBetween({0, 1, 255}, 2, MaxBytes)

\* connect_and_download is not running
NoDownload ==
    /\ frames = <<>>
    /\ stream = <<>>
    /\ pos = 0
    /\ link = "down"
    /\ subscribed = FALSE
    /\ pc = "enter"
    /\ flow = "normal"
    /\ rx_written = <<>>
    /\ trace = <<>>
    /\ SetClosureInit
    /\ NoMeasure

InitChecksum ==
    /\ call \in [fn : {"validate_checksum"}, arg : ChecksumInputs]
    /\ result = <<>>
    /\ NoScan
    /\ variant \in Variants
    /\ NoDownload

\* both programs define the same validate_checksum
CallValidateChecksum ==
    /\ call.fn = "validate_checksum"
    /\ result = <<>>
    /\ result' = <<validate_checksum(call.arg)>>
    /\ UNCHANGED <<call, device_vars, control_vars, closure_vars, scan_vars,
                 measure_vars>>

NextChecksum == CallValidateChecksum

SpecChecksum == InitChecksum /\ [][NextChecksum]_vars

(***************************************************************************)
(* measure_distances (src/racebox.py): its notification_handler and the    *)
(* loop that marks a point when Enter is pressed                           *)
(***************************************************************************)
MaxPoints == 2

\* the closure variables of the handler of measure_distances
MeasureClosure ==
    [ buffer |-> buffer,
      first_message |-> first_message,
      current_record |-> current_record,
      reference_point |-> reference_point,
      points |-> points,
      output |-> output,
      log |-> log,
      consumed |-> consumed,
      status |-> status ]

\* record[key] of a dict: KeyError when the key is missing
HasKey(record, key) == key \in DOMAIN record

\* the body of "if message_class == 0xFF and message_id == 0x01", after
\* the record has been decoded
ShowPosition(h, record) ==
    LET assigned == [h EXCEPT !.current_record = record]
        cleared == IF ~assigned.first_message
                   THEN Say(assigned, "clear lines")
                   ELSE [assigned EXCEPT !.first_message = FALSE]
        shown == Say(cleared, "Current")
    IN  IF ~HasKey(record, "HorizontalAccuracy")
        THEN \* current_record['Horizontal Accuracy']
             Raise(shown)
        ELSE IF shown.reference_point # None
        THEN Say(Say(shown, "Accuracy"), "Distance from last point")
        ELSE Say(shown, "Accuracy")

RECURSIVE MeasureBuffer(_)
\* while len(buffer) >= 8: ...
MeasureBuffer(h) ==
    IF Len(h.buffer) < MIN_PACKET THEN h
    ELSE IF PySlice(h.buffer, 0, 2) # SYNC
    THEN Hang(h)
    ELSE LET message_class == h.buffer[3]
             message_id == h.buffer[4]
             full_packet_length == FullPacketLength(h.buffer)
         IN  IF Len(h.buffer) < full_packet_length THEN h
             ELSE LET packet == PySlice(h.buffer, 0, full_packet_length)
                  IN  IF validate_checksum(packet)
                      THEN LET d == IF message_class = MESSAGE_CLASS
                                        /\ message_id = ID_LIVE
                                    THEN LET r == parse_01_message(packet)
                                         IN  IF r.raised THEN Raise(h)
                                             ELSE ShowPosition(h, r.value)
                                    ELSE h
                           IN  IF d.status = "raised" THEN d
                               ELSE MeasureBuffer(
                                        Consume(d, full_packet_length))
                      ELSE Hang(h)

measure_notification_handler(h, data) ==
    MeasureBuffer([h EXCEPT !.buffer = Extend(@, data),
                            !.status = "returned"])

\* the device in live mode: live frames, and other frames among them
LiveStreams ==
    { << <<"live", 1>> >>,
      << <<"live", 2>>, <<"live", 1>> >>,
      << <<"ack", 0>>, <<"live", 1>> >>,
      << <<"live", 2>>, <<"ack", 0>> >> }

\* measure_distances is connected and subscribed
InitMeasure ==
    /\ variant = "simple"
    /\ frames \in LiveStreams
    /\ stream = Flatten(frames)
    /\ pos = 0
    /\ link = "up"
    /\ subscribed = TRUE
    /\ pc = "enter"
    /\ flow = "normal"
    /\ rx_written = <<>>
    /\ trace = <<>>
    /\ SetClosureInit
    /\ NoMeasure
    /\ call = [fn |-> "none", arg |-> <<>>]
    /\ result = <<>>
    /\ scan_pc = "idle"
    /\ mode = "measure"
    /\ memory = None
    /\ last_device = None
    /\ device = None
    /\ racebox_devices = <<>>
    /\ scan_trace = <<>>

\* the transport calls the notification_handler of measure_distances
MeasureNotification(n) ==
    /\ Running
    /\ pos < Len(stream)
    /\ pos' = pos + n
    /\ \E h \in {measure_notification_handler(
                     MeasureClosure, SubSeq(stream, pos + 1, pos + n))} :
          /\ buffer' = h.buffer
          /\ first_message' = h.first_message
          /\ current_record' = h.current_record
          /\ output' = h.output
          /\ log' = h.log
          /\ consumed' = h.consumed
          /\ status' = h.status
    /\ UNCHANGED <<variant, frames, stream, control_vars, call_vars,
                   scan_vars, reference_point, points, session_data,
                   total_records, download_complete, session_num,
                   first_record, last_record, session_start_time, sink,
                   split>>

\* Enter is pressed: if current_record: points.append(current_record);
\* reference_point = current_record (output holds the lines of the handler
\* only: the line printed here is not recorded)
MarkPoint ==
    /\ Running
    /\ Len(points) < MaxPoints
    /\ IF current_record # None
       THEN /\ points' = Append(points, current_record)
            /\ reference_point' = current_record
       ELSE UNCHANGED <<points, reference_point>>
    /\ UNCHANGED <<device_vars, control_vars, call_vars, scan_vars,
                   current_record, first_message, buffer, output, log,
                   consumed, status, session_data, total_records,
                   download_complete, session_num, first_record,
                   last_record, session_start_time, sink, split>>

NextMeasure ==
    \/ \E n \in ChunkSizes : MeasureNotification(n)
    \/ MarkPoint

SpecMeasure == InitMeasure /\ [][NextMeasure]_vars

(***************************************************************************)
(* scan_and_connect                                                        *)
(*                                                                         *)
(* A device is <<address, name>>.  What the scanner finds and how the      *)
(* operation on a device ends are choices of the environment: the          *)
(* operation returns, raises an Exception, or the task is cancelled        *)
(* (asyncio.CancelledError, which "except Exception" does not catch).      *)
(***************************************************************************)
\* the most devices one BleakScanner.discover() reports
MaxDevices == 2

DeviceMenu ==
    { <<"A", "RaceBox Mini 1">>, <<"B", "RaceBox Micro 2">>,
      <<"C", "Headset">>, <<"D", "">> }

\* device.name and "RaceBox" in device.name
IsRaceBox(d) == d[2] \in {"RaceBox Mini 1", "RaceBox Micro 2"}

\* the lists discover() may return: no device twice
DiscoverResults ==
    { q \in SeqsUpTo(DeviceMenu, MaxDevices) :
        \A i, j \in 1..Len(q) : i # j => q[i] # q[j] }

Outcomes == {"return", "exception", "cancelled"}

\* src/racebox.py chooses by measure and monitor_only, src/src/racebox.py
\* only downloads
Modes(v) ==
    IF v = "simple" THEN {"download", "monitor", "measure"}
    ELSE {"download"}

Operation ==
    CASE mode = "measure" -> "measure_distances"
      [] mode = "monitor" -> "read_current_position"
      [] OTHER -> "connect_and_download"

\* the events of one awaited operation on d that ends by outcome
Operated(d, outcome) ==
    IF outcome = "return"
    THEN <<<<Operation, d[2]>>, <<"returned", d[2]>>>>
    ELSE <<<<Operation, d[2]>>>>

\* what scan_and_connect itself leaves alone: the operation on a device is
\* one step here
download_vars ==
    <<device_vars, control_vars, closure_vars, call_vars, measure_vars>>

\* last_device = get_last_device(); if last_device: ...
GetLastDevice ==
    /\ scan_pc = "start"
    /\ last_device' = memory
    /\ scan_pc' = IF memory # None THEN "find" ELSE "discover"
    /\ UNCHANGED <<mode, memory, device, racebox_devices, scan_trace>>
    /\ UNCHANGED download_vars

\* device = await BleakScanner.find_device_by_address(...); if device: ...
FindDevice ==
    /\ scan_pc = "find"
    /\ \E found \in {"found", "not_found", "exception", "cancelled"} :
          /\ device' = IF found = "found" THEN last_device ELSE device
          /\ scan_trace' =
                 scan_trace
                     \o <<<<"find_device_by_address", last_device[1]>>>>
                     \o (IF found = "found"
                         THEN <<<<"found", last_device[2]>>>> ELSE <<>>)
          /\ scan_pc' = CASE found = "found" -> "operate_last"
                          [] found = "cancelled" -> "cancelled"
                          [] OTHER -> "discover"
    /\ UNCHANGED <<mode, memory, last_device, racebox_devices>>
    /\ UNCHANGED download_vars

\* the operation on the remembered device: src/racebox.py returns after
\* it, src/src/racebox.py has no return and goes on to the scan
OperateLast ==
    /\ scan_pc = "operate_last"
    /\ \E outcome \in Outcomes :
          /\ scan_trace' = scan_trace \o Operated(device, outcome)
          /\ scan_pc' =
                 CASE outcome = "cancelled" -> "cancelled"
                   [] outcome = "exception" -> "discover"
                   [] OTHER -> IF variant = "simple" THEN "returned"
                               ELSE "discover"
    /\ UNCHANGED <<mode, memory, last_device, device, racebox_devices>>
    /\ UNCHANGED download_vars

\* devices = await BleakScanner.discover(); racebox_devices = [...]
Discover ==
    /\ scan_pc = "discover"
    /\ scan_trace' = Append(scan_trace, <<"discover", "">>)
    /\ \/ \E devices \in DiscoverResults :
             /\ racebox_devices' = SelectSeq(devices, IsRaceBox)
             /\ scan_pc' = IF racebox_devices' = <<>> THEN "returned"
                           ELSE "loop"
       \/ /\ scan_pc' \in {"raised", "cancelled"}
          /\ UNCHANGED racebox_devices
    /\ UNCHANGED <<mode, memory, last_device, device>>
    /\ UNCHANGED download_vars

\* one iteration of "for device in racebox_devices": save_last_device,
\* the operation, break when it returns
LoopBody ==
    /\ scan_pc = "loop"
    /\ IF racebox_devices = <<>>
       THEN /\ scan_pc' = "returned"
            /\ UNCHANGED <<memory, device, racebox_devices, scan_trace>>
       ELSE /\ device' = Head(racebox_devices)
            /\ racebox_devices' = Tail(racebox_devices)
            /\ memory' = device'
            /\ \E outcome \in Outcomes :
                  /\ scan_trace' =
                         Append(scan_trace, <<"save_last_device", device'[2]>>)
                             \o Operated(device', outcome)
                  /\ scan_pc' = CASE outcome = "cancelled" -> "cancelled"
                                  [] outcome = "exception" -> "loop"
                                  [] OTHER -> "returned"
    /\ UNCHANGED <<mode, last_device>>
    /\ UNCHANGED download_vars

InitScan ==
    /\ variant \in Variants
    /\ mode \in Modes(variant)
    /\ memory \in {None} \cup {d \in DeviceMenu : IsRaceBox(d)}
    /\ scan_pc = "start"
    /\ last_device = None
    /\ device = None
    /\ racebox_devices = <<>>
    /\ scan_trace = <<>>
    /\ call = [fn |-> "none", arg |-> <<>>]
    /\ result = <<>>
    /\ NoDownload

NextScan ==
    \/ GetLastDevice
    \/ FindDevice
    \/ OperateLast
    \/ Discover
    \/ LoopBody

SpecScan == InitScan /\ [][NextScan]_vars

(***************************************************************************)
(* The decoding specification: the record decoders called on their own     *)
(* with payloads encoded field by field                                    *)
(***************************************************************************)
\* the fields of the 80-byte record payload, numbered from 0, in the
\* vocabulary of the wire format
WireKinds ==
    << "u32", "u16", "u8", "u8", "u8", "u8", "u8", "u8", "u32", "i32",
       "u8", "u8", "u8", "u8", "i32", "i32", "i32", "i32", "u32", "u32",
       "i32", "i32", "u32", "u32", "u16", "u8", "u8",
       "i16", "i16", "i16", "i16", "i16", "i16" >>

\* the fixed byte offset of each field
WireOffsets ==
    << 0, 4, 6, 7, 8, 9, 10, 11, 12, 16, 20, 21, 22, 23, 24, 28, 32, 36,
       40, 44, 48, 52, 56, 60, 64, 66, 67, 68, 70, 72, 74, 76, 78 >>

WireWidth(kind) ==
    CASE kind = "u8" -> 1
      [] kind \in {"u16", "i16"} -> 2
      [] kind \in {"u32", "i32"} -> 4

\* byte k (0 the lowest) of the two's complement of an integer
ByteOfInt(v, k) == (v \div Pow2(8 * k)) % 256

\* byte k of a field value; a u32 is <<high half, low half>>
WireByte(kind, v, k) ==
    IF kind = "u32"
    THEN IF k < 2 THEN ByteOfInt(v[2], k) ELSE ByteOfInt(v[1], k - 2)
    ELSE ByteOfInt(v, k)

\* the field that owns the byte at an offset of the payload
FieldAtOffset(o) ==
    CHOOSE i \in 1..Len(WireKinds) :
        WireOffsets[i] <= o /\ o < WireOffsets[i] + WireWidth(WireKinds[i])

\* the payload that carries the field values v[0], ..., v[32]
EncodeRecord(v) ==
    [ k \in 1..80 |->
        LET i == FieldAtOffset(k - 1)
        IN  WireByte(WireKinds[i], v[i - 1], k - 1 - WireOffsets[i]) ]

\* a value of its own for every field: the longitude (field 14) is
\* 123456789
BaseValue(i) ==
    LET kind == WireKinds[i + 1]
    IN  CASE kind = "u8" -> i + 1
          [] kind = "u16" -> 1000 + i
          [] kind = "i16" -> 0 - (100 + i)
          [] kind = "i32" -> 123456775 + i
          [] kind = "u32" -> <<i + 1, i + 2>>

\* the ends of the range of each kind, and values in between
TestValues(kind) ==
    CASE kind = "u8" -> {0, 200, 255}
      [] kind = "u16" -> {0, 2024, 65535}
      [] kind = "i16" -> {-32768, -1, 1000, 32767}
      [] kind = "i32" -> {-2147483647, -1, 123456789, 2147483647}
      [] kind = "u32" -> {<<0, 0>>, <<0, 1>>, <<1, 0>>, <<65535, 65535>>}

BaseRecord == [i \in 0..32 |-> BaseValue(i)]

\* the base record, and the base record with one field changed
RecordInputs ==
    {BaseRecord}
        \cup UNION { { [BaseRecord EXCEPT ![i] = x] :
                         x \in TestValues(WireKinds[i + 1]) } : i \in 0..32 }

RecordPayloads == [v \in RecordInputs |-> EncodeRecord(v)]

\* which frame each decoder is given: parse_21_message the history
\* frames, parse_01_message the live frames, parse_message both
DecoderIds(fn) ==
    CASE fn = "parse_21_message" -> {ID_HISTORY}
      [] fn = "parse_01_message" -> {ID_LIVE}
      [] fn = "parse_message" -> {ID_HISTORY, ID_LIVE}

Decoders == {"parse_21_message", "parse_01_message", "parse_message"}

InitDecode ==
    /\ \E fn \in Decoders, v \in RecordInputs :
          \E id \in DecoderIds(fn) :
             call = [ fn |-> fn,
                      arg |-> WireFrame(MESSAGE_CLASS, id, RecordPayloads[v]) ]
    /\ result = <<>>
    /\ NoScan
    /\ variant = IF call.fn = "parse_message" THEN "extended" ELSE "simple"
    /\ NoDownload

CallParse21 ==
    /\ call.fn = "parse_21_message"
    /\ result = <<>>
    /\ result' = <<parse_21_message(call.arg)>>
    /\ UNCHANGED <<call, device_vars, control_vars, closure_vars, scan_vars,
                 measure_vars>>

CallParse01 ==
    /\ call.fn = "parse_01_message"
    /\ result = <<>>
    /\ result' = <<parse_01_message(call.arg)>>
    /\ UNCHANGED <<call, device_vars, control_vars, closure_vars, scan_vars,
                 measure_vars>>

CallParseMessage ==
    /\ call.fn = "parse_message"
    /\ result = <<>>
    /\ result' = <<parse_message(call.arg)>>
    /\ UNCHANGED <<call, device_vars, control_vars, closure_vars, scan_vars,
                 measure_vars>>

NextDecode ==
    \/ CallParse21
    \/ CallParse01
    \/ CallParseMessage

SpecDecode == InitDecode /\ [][NextDecode]_vars

\* the base record with every value of the fix-status-flags byte (field
\* 11) and of the lat/lon-flags byte (field 25)
FlagInputs ==
    { [BaseRecord EXCEPT ![i] = b] : i \in {11, 25}, b \in 0..255 }

\* parse_message called on records that differ in one flag byte
InitFlags ==
    /\ \E v \in FlagInputs, id \in DecoderIds("parse_message") :
          call = [ fn |-> "parse_message",
                   arg |-> WireFrame(MESSAGE_CLASS, id, EncodeRecord(v)) ]
    /\ result = <<>>
    /\ NoScan
    /\ variant = "extended"
    /\ NoDownload

NextFlags == CallParseMessage

SpecFlags == InitFlags /\ [][NextFlags]_vars

(***************************************************************************)
(* Properties                                                              *)
(***************************************************************************)
Range(q) == {q[i] : i \in 1..Len(q)}

\* the offset in the stream of the first byte of frame i
FrameStart(i) == Len(Flatten(SubSeq(frames, 1, i - 1)))

\* the offset in the stream just after the last byte of frame i
FrameEnd(i) == Len(Flatten(SubSeq(frames, 1, i)))

\* the frame that log entry e says was dispatched
FrameOf(e) == SubSeq(stream, e.off + 1, e.off + e.len)

\* the checksum rule of the wire format holds for frame
WireValid(frame) ==
    WireChecksum(frame, Len(frame) - 2)
        = <<frame[Len(frame) - 1], frame[Len(frame)]>>

AllWellFormed == \A i \in 1..Len(frames) : frames[i][1] \in WellFormedKinds

\* what the handler calls have done: the frames dispatched, the records
\* appended, the expected count, the completion flag, the sessions
\* announced and what is left in the buffer
Outcome(h) ==
    [ dispatched |-> h.log,
      session_data |-> h.session_data,
      total_records |-> h.total_records,
      download_complete |-> h.download_complete,
      session_num |-> h.session_num,
      first_record |-> h.first_record,
      last_record |-> h.last_record,
      sink |-> h.sink,
      buffer |-> h.buffer ]

\* C1: once a stream of well-formed, checksum-valid frames has been
\* delivered, in whatever chunks, the dispatched frames, the records,
\* the expected count, the completion flag and the buffer are those of one
\* handler call with the whole stream
C1_ChunkingInvariance ==
    (AllWellFormed /\ pos = Len(stream))
        => Outcome(Closure)
               = Outcome(notification_handler(variant, InitialClosure, stream))

\* a stream of MaxFrames frames, a record among them, delivered in several
\* calls of which one ended inside a frame
C1_Witness ==
    /\ AllWellFormed
    /\ Len(frames) = MaxFrames
    /\ pos = Len(stream)
    /\ split
    /\ session_data # <<>>
    /\ Len(log) = MaxFrames

\* frames whose payload is as long as their decoder expects
DecodableKinds == WellFormedKinds \ {"short_start", "short_hist"}

\* frame i has a wrong checksum, the frames before it are dispatched without
\* an exception, a well-formed frame follows and both have been delivered
BadThenGood(i) ==
    /\ i + 1 <= Len(frames)
    /\ frames[i][1] \in BadChecksumKinds
    /\ \A j \in 1..(i - 1) : frames[j][1] \in DecodableKinds
    /\ frames[i + 1][1] \in WellFormedKinds
    /\ pos >= FrameEnd(i + 1)

\* C2: when a complete frame with a wrong checksum is followed by a
\* well-formed frame, the bad frame has left the buffer (its length + 8
\* bytes, no more) and the frame after it is the one the handler dispatches
C2_BadFrameDropped ==
    \A i \in 1..Len(frames) :
        BadThenGood(i)
            => /\ status # "hung"
               /\ consumed >= FrameEnd(i)
               /\ \/ \E k \in 1..Len(log) : log[k].off = FrameStart(i + 1)
                  \/ status = "raised" /\ consumed = FrameStart(i + 1)

\* C3: a call of the handler returns when at least 8 bytes are buffered and
\* the first two are not B5 62
C3_ReturnsOnSyncMismatch ==
    (Len(buffer) >= MIN_PACKET /\ PySlice(buffer, 0, 2) # SYNC)
        => status # "hung"

\* the sessions flushed to the sink, each with its records: a CSV file of
\* src/racebox.py, a bulk insert of rows of src/src/racebox.py (a row of
\* ins_imp holds a name and a duration, no record)
FlushedSessions == SelectSeq(sink, LAMBDA e : e.kind \in {"csv", "data"})

\* C4: once record, record, boundary, record, completion have been
\* delivered and connect_and_download has ended, two sessions are flushed, the first with the 2 records before the boundary, the second
\* with the record after it, and no record is in both
C4_BoundarySplitsSessions ==
    (frames = BoundaryDownload /\ pos = Len(stream) /\ pc = "done")
        => /\ Len(FlushedSessions) = 2
           /\ Len(FlushedSessions[1].rows) = 2
           /\ Len(FlushedSessions[2].rows) = 1
           /\ Range(FlushedSessions[1].rows)
                  \cap Range(FlushedSessions[2].rows) = {}

\* C5: after a start frame announcing n, n history frames and the
\* completion frame, the expected count is n, n records are accumulated and
\* the completion flag is set
C5_CountedDownload ==
    \A n \in 0..MaxN :
        (frames = CountedDownload(n) /\ pos = Len(stream))
            => /\ total_records = U32(n)
               /\ Len(session_data) = n
               /\ download_complete

\* the longest counted download, delivered in several calls
C5_Witness ==
    /\ frames = CountedDownload(MaxN)
    /\ pos = Len(stream)
    /\ split
    /\ Len(session_data) = MaxN

\* C6: validate_checksum(frame) is true exactly when ckA and ckB, summed
\* from 0 over frame[2 .. len-2), equal frame[len-2] and frame[len-1]
C6_ChecksumRule ==
    (call.fn = "validate_checksum" /\ result # <<>>)
        => (result[1] <=> WireValid(call.arg))

\* a frame accepted although one of its sync bytes was changed: the sync
\* bytes are not summed
C6_Witness ==
    /\ call.fn = "validate_checksum"
    /\ result = <<TRUE>>
    /\ Len(call.arg) >= MIN_PACKET
    /\ PySlice(call.arg, 0, 2) # SYNC

\* C7: the command written to the device is B5 62 FF 23 00 00 22 65, its
\* length field is 0, its size is length + 8, validate_checksum accepts it
\* and the checksum of FF 23 00 00 is 22 65
C7_CommandWellFormed ==
    \A i \in 1..Len(rx_written) :
        LET command == rx_written[i]
        IN  /\ command = <<181, 98, 255, 35, 0, 0, 34, 101>>
            /\ Unsigned(PySlice(command, 4, 6)) = 0
            /\ Len(command) = FullPacketLength(command)
            /\ validate_checksum(command)
            /\ ChecksumLoop(<<255, 35, 0, 0>>) = <<34, 101>>

\* the command has been written
C7_Witness == rx_written = <<DOWNLOAD_COMMAND>> /\ pc = "wait"

\* C8: every write of the command comes after a completed start_notify,
\* and the subscription is active when the command is written
C8_WriteAfterSubscribe ==
    /\ [](\A i \in 1..Len(trace) :
             trace[i] = "write"
                 => \E j \in 1..(i - 1) : trace[j] = "start_notify")
    /\ [][rx_written' # rx_written => subscribed]_vars

\* the command was written and a frame has arrived since
C8_Witness ==
    /\ "write" \in Range(trace)
    /\ rx_written # <<>>
    /\ pos > 0

\* a checksum-valid 0xFF/0x02 frame was dispatched
AckDispatched ==
    \E k \in 1..Len(log) :
        LET frame == FrameOf(log[k])
        IN  /\ frame[3] = MESSAGE_CLASS
            /\ frame[4] = ID_ACK
            /\ WireValid(frame)

\* C9: the wait returns only after a checksum-valid 0xFF/0x02 frame was
\* dispatched, and the completion flag, once set, stays set
C9_CompletedAfterAck ==
    /\ [](("wait" \in Range(trace)) => AckDispatched)
    /\ [][download_complete => download_complete']_vars

\* the wait has returned and frames of every kind, a second 0x02 among
\* them, were dispatched after the first 0x02
C9_Witness ==
    /\ frames = TalkativeDownload
    /\ pos = Len(stream)
    /\ "wait" \in Range(trace)
    /\ Len(log) = Len(frames)
    /\ download_complete

\* C10: when the transport disconnects while the controller waits and no
\* 0x02 frame was dispatched, the wait ends
C10_DisconnectEndsWait ==
    (pc = "wait" /\ link = "lost" /\ ~download_complete) ~> (pc # "wait")

\* C11: at the end of the download the final flush of the session to the
\* sink happens while the transport is still held and after the
\* unsubscription: never after the transport has been released
C11_FlushBeforeRelease ==
    [][(pc = "save" /\ sink' # sink) => (link = "up" /\ ~subscribed)]_vars

\* C12: once a stream of complete, checksum-valid frames has been
\* delivered, of whatever class, id and payload length, the last handler
\* call has returned normally and every frame has left the buffer
C12_NoErrorUnwinds ==
    (AllWellFormed /\ pos = Len(stream))
        => /\ status = "returned"
           /\ consumed = Len(stream)
           /\ buffer = <<>>

\* frames whose (class, id) no branch of the handlers names
UnknownKinds == {"other_class", "other_id"}

\* the last frame of the stream
LastFrame == frames[Len(frames)]

\* the closure variables after one call with the frames before the last
BeforeLast ==
    notification_handler(variant, InitialClosure,
                         SubSeq(stream, 1, FrameStart(Len(frames))))

\* the last frame follows frames that are dispatched without an exception,
\* and all have been delivered
LastAfterDecodable ==
    /\ frames # <<>>
    /\ \A j \in 1..(Len(frames) - 1) : frames[j][1] \in DecodableKinds
    /\ pos = Len(stream)

\* C13: a checksum-valid frame of an unknown (class, id) leaves the
\* buffer, leaves the records, the expected count and the completion flag
\* as they were, and a diagnostic line is produced for it
C13_UnknownFrameDiagnosed ==
    (LastAfterDecodable /\ LastFrame[1] \in UnknownKinds)
        => /\ consumed = Len(stream)
           /\ session_data = BeforeLast.session_data
           /\ total_records = BeforeLast.total_records
           /\ download_complete = BeforeLast.download_complete
           /\ Len(output) > Len(BeforeLast.output)

\* C14: once a checksum-valid 0xFF/0x03 frame has been handled, a line
\* reporting it has been produced, the command has not been written again,
\* the completion flag is not set and the records are as they were
C14_NackReported ==
    (frames = NackDownload /\ pos = Len(stream))
        => /\ consumed = Len(stream)
           /\ Len(output) > Len(BeforeLast.output)
           /\ Len(rx_written) <= 1
           /\ ~download_complete
           /\ session_data = BeforeLast.session_data

RECURSIVE RowsOf(_)
\* the records of a sequence of flushed sessions, in the order of the sink
RowsOf(sessions) ==
    IF sessions = <<>> THEN <<>>
    ELSE Head(sessions).rows \o RowsOf(Tail(sessions))

\* connect_and_download has ended, by a return or by an exception
Ended == pc \in {"done", "raised", "returned"}

\* C15: when a run in which the wait returned (Completed) and the link was
\* never lost has ended with at least one record accumulated, the hand-off
\* has not failed and the sink holds every record once, in arrival order
C15_RecordsHandedOnce ==
    (Ended /\ "wait" \in Range(trace) /\ link # "lost"
           /\ session_data # <<>>)
        => /\ pc = "done"
           /\ RowsOf(FlushedSessions) = session_data

\* the remembered device was found and connect_and_download on it returned
RememberedDownloadReturned ==
    /\ Len(scan_trace) >= 4
    /\ scan_trace[2][1] = "found"
    /\ scan_trace[3][1] = "connect_and_download"
    /\ scan_trace[4][1] = "returned"

\* C16: when the remembered device was found and the download from it
\* returned, the run performs no BleakScanner.discover() and no second
\* download
C16_SkipsRediscovery ==
    RememberedDownloadReturned
        => /\ \A i \in 1..Len(scan_trace) : scan_trace[i][1] # "discover"
           /\ Cardinality({i \in 1..Len(scan_trace) :
                              scan_trace[i][1] = "connect_and_download"}) = 1


\* what parse_21_message has to return for the field values v
OriginalSimple(v) ==
    [ iTOW       |-> v[0],
      Year       |-> v[1],
      Month      |-> v[2],
      Day        |-> v[3],
      Hour       |-> v[4],
      Minute     |-> v[5],
      Second     |-> v[6],
      Longitude  |-> <<v[14], 10000000>>,
      Latitude   |-> <<v[15], 10000000>>,
      WGSAltitude |-> <<v[16], 1000>>,
      Speed      |-> <<v[20], 1000>>,
      Heading    |-> <<v[21], 100000>>,
      GForceX    |-> <<v[27], 1000>>,
      GForceY    |-> <<v[28], 1000>>,
      GForceZ    |-> <<v[29], 1000>>,
      RotationRateX |-> <<v[30], 100>>,
      RotationRateY |-> <<v[31], 100>>,
      RotationRateZ |-> <<v[32], 100>> ]

\* the numeric columns of the tuple of parse_message, by position, for
\* the field values v
OriginalExtended(v) ==
    [ p \in ((1..34) \ {2, 9, 13, 14, 27}) |->
        CASE p = 1 -> v[0]
          [] p \in 3..8 -> v[p - 2]
          [] p \in 10..12 -> v[p - 2]
          [] p = 15 -> v[13]
          [] p \in 16..17 -> <<v[p - 2], 10000000>>
          [] p \in 18..22 -> <<v[p - 2], 1000>>
          [] p = 23 -> <<v[21], 100000>>
          [] p = 24 -> v[22]
          [] p = 25 -> <<v[23], 100000>>
          [] p = 26 -> v[24]
          [] p = 28 -> <<v[26], 10>>
          [] p \in 29..31 -> <<v[p - 2], 1000>>
          [] p \in 32..34 -> <<v[p - 2], 100>> ]

\* C17: the decoder called on a payload that carries the field values v
\* little-endian at the fixed offsets returns, without raising, the values
\* v themselves, each as numerator over its scale factor (the longitude
\* 123456789 comes back as 123456789 / 10000000); since the inputs differ
\* from the base record in one field at a time, a field read from another
\* field's bytes would show
C17_RoundTrip ==
    \A v \in RecordInputs :
        (result # <<>> /\ PySlice(call.arg, 6, 86) = RecordPayloads[v]) =>
            /\ ~result[1].raised
            /\ IF call.fn = "parse_message"
               THEN \A p \in DOMAIN OriginalExtended(v) :
                       result[1].value[p] = OriginalExtended(v)[p]
               ELSE result[1].value = OriginalSimple(v)

C17_Witness ==
    /\ result # <<>>
    /\ call.fn = "parse_21_message"
    /\ PySlice(call.arg, 6, 86) =
           RecordPayloads[[BaseRecord EXCEPT ![14] = 123456789]]
    /\ ~result[1].raised
    /\ result[1].value.Longitude = <<123456789, 10000000>>

\* the frames are record frames, one of them with a payload of two bytes
\* under a valid checksum
OneShortRecord ==
    /\ \E i \in 1..Len(frames) :
          /\ frames[i][1] = "short_hist"
          /\ \A j \in (1..Len(frames)) \ {i} : frames[j][1] \in {"hist", "live"}
    /\ pos = Len(stream)

\* C18: once record frames, one of them checksum-valid with a payload
\* shorter than 80 bytes, have been delivered, every frame has been removed
\* from the buffer and the session holds the records of all the other
\* frames, those before the short one and those after it
C18_ShortRecordDropped ==
    OneShortRecord =>
        /\ consumed = Len(stream)
        /\ buffer = <<>>
        /\ Len(session_data) = Len(frames) - 1

\* frame i is the first frame with a wrong checksum and all of it has been
\* delivered
FirstBadDelivered(i) ==
    /\ i \in 1..Len(frames)
    /\ frames[i][1] \in BadChecksumKinds
    /\ \A j \in 1..(i - 1) : frames[j][1] \notin BadChecksumKinds
    /\ pos >= FrameEnd(i)

\* the closure after the frames before frame i, handed over in one call
BeforeFrame(i) ==
    notification_handler(variant, InitialClosure,
                         SubSeq(stream, 1, FrameStart(i)))

\* C19: every frame the handler dispatches passes the checksum rule, and
\* once a complete frame with a wrong checksum has been delivered, whatever
\* its class and id, the records, the expected count, the completion flag,
\* the session number and the rows handed to storage are those left by the
\* frames before it: the bad frame was not dispatched
C19_BadFrameNotDispatched ==
    /\ \A k \in 1..Len(log) : WireValid(FrameOf(log[k]))
    /\ \A i \in 1..Len(frames) :
          FirstBadDelivered(i) =>
              \E b \in {BeforeFrame(i)} :
                 /\ \A k \in 1..Len(log) : log[k].off # FrameStart(i)
                 /\ session_data = b.session_data
                 /\ total_records = b.total_records
                 /\ download_complete = b.download_complete
                 /\ session_num = b.session_num
                 /\ first_record = b.first_record
                 /\ sink = b.sink

\* a bad boundary frame has arrived while the session holds a record
C19_Witness ==
    /\ FirstBadDelivered(3)
    /\ frames[3][1] = "bad_boundary"
    /\ session_data # <<>>
    /\ consumed = FrameStart(3)

\* the frame dispatched last is a boundary frame (0xFF/0x26) and a record
\* frame was dispatched before it
BoundaryJustHandled ==
    /\ log # <<>>
    /\ LET last == FrameOf(log[Len(log)])
       IN  last[3] = MESSAGE_CLASS /\ last[4] = ID_STATE_CHANGE
    /\ \E k \in 1..(Len(log) - 1) :
          LET f == FrameOf(log[k])
          IN  f[3] = MESSAGE_CLASS /\ f[4] = ID_HISTORY /\ Len(f) = 88

\* C20: right after a boundary frame has been handled with records in the
\* session, the list of accumulated records is empty
C20_ClearedAfterBoundary ==
    BoundaryJustHandled => session_data = <<>>

\* the rows of ins_imp handed to the database, one for each flush at a
\* boundary
ImpRows == SelectSeq(sink, LAMBDA e : e.kind = "imp")

\* the frames dispatched so far, by name
DispatchedFrames == SubSeq(frames, 1, Len(log))

RECURSIVE ClosedSessions(_, _)
\* the recordings that a boundary has closed: for each, the numbers of its
\* records in arrival order; open holds the records since the last boundary
ClosedSessions(fs, open) ==
    IF fs = <<>> THEN <<>>
    ELSE IF Head(fs)[1] \in {"hist", "live"}
    THEN ClosedSessions(Tail(fs), Append(open, Head(fs)[2]))
    ELSE IF Head(fs)[1] = "boundary"
    THEN (IF open = <<>> THEN <<>> ELSE <<open>>)
             \o ClosedSessions(Tail(fs), <<>>)
    ELSE ClosedSessions(Tail(fs), open)

\* "20241205105500" + k in text: the timestamp of record k on the wire
WireStamp(k) ==
    <<50, 48, 50, 52, 49, 50, 48, 53, 49, 48, 53, 53>>
        \o <<48 + (k \div 10), 48 + (k % 10)>>

\* C21: the k-th identifier emitted at a boundary is the timestamp of the
\* first record that arrived since the previous boundary (or the start),
\* an underscore, and the timestamp of the last record that arrived before
\* this boundary, whatever the order of the timestamps themselves
C21_IdentifierOfItsSession ==
    \E closed \in {ClosedSessions(DispatchedFrames, <<>>)} :
       /\ Len(ImpRows) <= Len(closed)
       /\ \A k \in 1..Len(ImpRows) :
             ImpRows[k].file_name
                 = WireStamp(closed[k][1]) \o <<95>>
                       \o WireStamp(closed[k][Len(closed[k])])

\* two identifiers were emitted, the second for a session of two records
\* that followed an earlier session
C21_Witness ==
    /\ Len(ImpRows) = 2
    /\ ImpRows[2].file_name = WireStamp(1) \o <<95>> \o WireStamp(7)
    /\ split

\* C22: when a record opens a session (no record had arrived since the
\* previous boundary or the start), the start time of the session, from
\* which its duration is counted at the flush, is the time of the handler
\* call in which that record arrived
C22_StartsAtFirstRecord ==
    [][(variant = "extended" /\ first_record = None /\ first_record' # None)
          => session_start_time' = consumed' + Len(buffer')]_vars

\* C23: a boundary frame handled when no record has arrived since the
\* previous boundary (or the start) adds nothing to the sink and leaves the
\* session counter as it was, so that the rows emitted at boundaries and
\* the counter number exactly the boundaries that closed a non-empty
\* recording; and the save at the end adds nothing when no record was
\* accumulated
C23_EmptyFlushNoOp ==
    /\ \E n \in { IF variant = "extended"
                  THEN Len(ClosedSessions(DispatchedFrames, <<>>))
                  ELSE 0 } :
          Len(ImpRows) = n /\ session_num = n
    /\ ("save" \in Range(trace) /\ session_data = <<>>)
           => FlushedSessions = <<>>

\* three boundaries, two of them with no record before them, were handled
\* by src/src/racebox.py, and the save at the end has run
C23_Witness ==
    /\ variant = "extended"
    /\ frames = IdleDownload
    /\ Len(log) = Len(frames)
    /\ Len(ImpRows) = 1
    /\ "save" \in Range(trace)

\* C24: once the first download-start frame (0xFF/0x23) of the run has
\* been dispatched, the expected record count is the count it announced,
\* whatever frames are dispatched after it, a second 0xFF/0x23 frame
\* included
C24_CountSetOnce ==
    \A i \in 1..Len(log) :
        (frames[i][1] = "start"
            /\ \A j \in 1..(i - 1) : frames[j][1] # "start")
        => total_records = U32(frames[i][2])

\* bit k of a byte, as 0 or 1
BitOf(b, k) == (b \div Pow2(k)) % 2

\* the byte of the payload of call.arg at an offset
PayloadByte(offset) == call.arg[6 + offset + 1]

\* C25: for every value of the fix-status-flags byte (offset 21) and of
\* the lat/lon-flags byte (offset 66), parse_message returns valid-fix =
\* bit 0, differential-corrections = bit 1, power-state = bits 4..2 as a
\* number 0..7, valid-heading = bit 5, carrier-phase-range-solution = bits
\* 7..6 as a number 0..3, invalid-lat-lon = bit 0 and
\* differential-correction-age = bits 4..1 as a number 0..15; the fields of
\* the fix-status byte put back at their bits give the byte
C25_FlagsExact ==
    (call.fn = "parse_message" /\ result # <<>>) =>
        /\ ~result[1].raised
        /\ LET b == PayloadByte(21)
               fix == result[1].value[13]
               Num(flag) == IF flag THEN 1 ELSE 0
           IN  /\ fix.ValidFix = (BitOf(b, 0) = 1)
               /\ fix.DifferentialCorrectionsApplied = (BitOf(b, 1) = 1)
               /\ fix.PowerState
                      = BitOf(b, 2) + 2 * BitOf(b, 3) + 4 * BitOf(b, 4)
               /\ fix.ValidHeading = (BitOf(b, 5) = 1)
               /\ fix.CarrierPhaseRangeSolution
                      = BitOf(b, 6) + 2 * BitOf(b, 7)
               /\ fix.PowerState \in 0..7
               /\ fix.CarrierPhaseRangeSolution \in 0..3
               /\ b = Num(fix.ValidFix)
                        + 2 * Num(fix.DifferentialCorrectionsApplied)
                        + 4 * fix.PowerState
                        + 32 * Num(fix.ValidHeading)
                        + 64 * fix.CarrierPhaseRangeSolution
        /\ LET b == PayloadByte(66)
               latlon == result[1].value[27]
           IN  /\ latlon.InvalidLatLon = (BitOf(b, 0) = 1)
               /\ latlon.DifferentialCorrectionAge
                      = BitOf(b, 1) + 2 * BitOf(b, 2) + 4 * BitOf(b, 3)
                            + 8 * BitOf(b, 4)
               /\ latlon.DifferentialCorrectionAge \in 0..15

\* the fix-status byte 0x5D: power state 7 between a clear bit 1 and a
\* clear bit 5, carrier phase 1
C25_Witness ==
    /\ call.fn = "parse_message"
    /\ result # <<>>
    /\ PayloadByte(21) = 93
    /\ ~result[1].raised
    /\ result[1].value[13].PowerState = 7
    /\ result[1].value[13].CarrierPhaseRangeSolution = 1
    /\ ~result[1].value[13].ValidHeading

\* the positions in scan_trace of the calls of save_last_device
SavePositions ==
    {i \in 1..Len(scan_trace) : scan_trace[i][1] = "save_last_device"}

\* C26: when scan_and_connect has returned after writing the device-memory
\* file, the device written last is one whose operation (connect and
\* download, monitor or measure) returned: a device whose attempt raised is
\* not the one remembered
C26_MemoryOnlyConnected ==
    (scan_pc = "returned" /\ SavePositions # {}) =>
        \E i \in SavePositions :
           /\ \A j \in SavePositions : j <= i
           /\ memory[2] = scan_trace[i][2]
           /\ Len(scan_trace) >= i + 2
           /\ scan_trace[i + 2] = <<"returned", memory[2]>>

\* the live frames of the stream have all been delivered up to frame i and
\* no further
LiveDeliveredUpTo(i) ==
    /\ mode = "measure"
    /\ \A j \in 1..Len(frames) : frames[j][1] = "live"
    /\ i \in 1..Len(frames)
    /\ FrameEnd(i) <= pos
    /\ (i < Len(frames) => pos < FrameEnd(i + 1))

\* C27: in distance-measurement mode, once valid live frames have been
\* delivered up to frame i, in whatever chunks, the frames have left the
\* buffer and current_record is the record of frame i, the most recent
\* one
C27_CurrentIsMostRecent ==
    \A i \in 1..Len(frames) :
        LiveDeliveredUpTo(i) =>
            /\ consumed = FrameEnd(i)
            /\ current_record # None
            /\ current_record.iTOW = U32(frames[i][2])
            /\ current_record.Second = frames[i][2]

\* every byte of a download that ends with the completion frame (0xFF/0x02)
\* has been delivered and the link is up
DownloadDelivered ==
    /\ frames # <<>>
    /\ LastFrame[1] = "ack"
    /\ \A i \in 1..Len(frames) : frames[i][1] \in DecodableKinds
    /\ pos = Len(stream)
    /\ link = "up"

\* connect_and_download has ended normally, unsubscribed and disconnected,
\* with every accumulated record handed to the sink
HandedOver ==
    /\ pc = "done"
    /\ ~subscribed
    /\ link # "up"
    /\ "stop_notify" \in Range(trace)
    /\ RowsOf(FlushedSessions) = session_data

\* C28: once a stream of well-formed, checksum-valid frames that ends with
\* a 0xFF/0x02 frame has been delivered, in whatever chunks, the controller
\* eventually leaves the wait, unsubscribes, disconnects and hands the
\* accumulated records to the sink, unless the link is lost meanwhile
C28_DownloadCompletes ==
    DownloadDelivered ~> (HandedOver \/ link = "lost")

\* the length a frame announces in its bytes 4 and 5, plus 8
AnnouncedSize(bytes) == bytes[5] + 256 * bytes[6] + 8

\* C29: the buffer is the end of the bytes delivered so far; what was
\* removed before it is a whole number of frames, one after the other
\* from the first byte, each of exactly its announced length + 8 bytes; and
\* whenever a handler call has returned, the buffer holds fewer than 8
\* bytes or starts with a frame whose announced length + 8 exceeds the
\* number of bytes buffered
C29_BufferInvariant ==
    /\ buffer = SubSeq(stream, consumed + 1, pos)
    /\ \A k \in 1..Len(log) :
          /\ log[k].off = IF k = 1 THEN 0
                          ELSE log[k - 1].off + log[k - 1].len
          /\ log[k].len = AnnouncedSize(FrameOf(log[k]))
    /\ consumed = IF log = <<>> THEN 0
                  ELSE log[Len(log)].off + log[Len(log)].len
    /\ status = "returned" =>
          \/ Len(buffer) < 8
          \/ /\ SubSeq(buffer, 1, 2) = <<181, 98>>
             /\ AnnouncedSize(buffer) > Len(buffer)

\* a call has returned with the first part of a frame in the buffer, at
\* least 8 bytes of it, after a whole frame was removed
C29_Witness ==
    /\ status = "returned"
    /\ Len(buffer) >= 8
    /\ Len(log) = 1
    /\ consumed > 0
    /\ pos < Len(stream)

\* the stream holds history frames and live frames only
RecordFramesOnly == \A i \in 1..Len(frames) : frames[i][1] \in {"hist", "live"}

\* the seconds field of a record of either program
SecondOf(record) ==
    IF variant = "simple" THEN record.Second ELSE record[8]

\* C30: for the bytes of every dispatched record frame, history or live,
\* parse_21_message and parse_01_message return the same record, and the
\* download handler has appended one record for each dispatched frame to the
\* one session, in arrival order: the i-th record is the decoding of the
\* i-th frame whichever its id
C30_HistoryAndLiveAlike ==
    RecordFramesOnly =>
        /\ Len(session_data) = Len(log)
        /\ \A i \in 1..Len(log) :
              LET frame == FrameOf(log[i])
              IN  /\ parse_21_message(frame) = parse_01_message(frame)
                  /\ ~parse_21_message(frame).raised
                  /\ session_data[i] =
                         IF variant = "simple"
                         THEN parse_21_message(frame).value
                         ELSE parse_message(frame).value
                  /\ SecondOf(session_data[i]) = frames[i][2]

\* a live frame and then a history frame were appended to the session
C30_Witness ==
    /\ Len(frames) = 2
    /\ frames[1][1] = "live"
    /\ frames[2][1] = "hist"
    /\ Len(session_data) = 2
    /\ split

(***************************************************************************)
(* C31: the record list and the sink                                       *)
(***************************************************************************)
\* no exception was caught on the way to the save: src/racebox.py never
\* reaches its save after one, src/src/racebox.py logs it and goes on, and
\* the only exceptions of the statements come from a lost link
NoExceptionCaught == variant = "simple" \/ link # "lost"

\* the step is one whole call of the handler on the chunk that follows the
\* bytes already delivered, from the state the previous call left
OneHandlerCall ==
    /\ subscribed
    /\ trace' = trace
    /\ pc' = pc
    /\ \E n \in ChunkSizes :
          /\ pos' = pos + n
          /\ Closure' = notification_handler(variant, Closure,
                                             SubSeq(stream, pos + 1, pos + n))

\* the step is the save of connect_and_download
SaveStep == "save" \notin Range(trace) /\ "save" \in Range(trace')

\* C31: session_data changes only by one whole call of the handler, made
\* before stop_notify has returned and before the save; in a run without
\* an exception the save comes after stop_notify has returned, with the
\* handler unsubscribed, and it leaves the list as it reads it.
C31_ListFrozenBeforeSink ==
    [][ /\ (session_data' # session_data) =>
              /\ OneHandlerCall
              /\ "stop_notify" \notin Range(trace)
              /\ "save" \notin Range(trace)
        /\ (SaveStep /\ NoExceptionCaught) =>
              /\ "stop_notify" \in Range(trace)
              /\ ~subscribed
              /\ session_data' = session_data
              /\ (variant = "simple" =>
                     sink' = sink \o save_to_csv(session_data))
              /\ (variant = "extended" /\ Len(session_data) >= 2 =>
                     sink' = Append(sink, [ kind |-> "data",
                                            rows |-> session_data ]))
      ]_vars

\* a download that ended without an exception, whose records were saved
\* while the device still had bytes to send
C31_Witness ==
    /\ pc = "done"
    /\ link # "lost"
    /\ "stop_notify" \in Range(trace)
    /\ "save" \in Range(trace)
    /\ session_data # <<>>
    /\ sink # <<>>
    /\ pos < Len(stream)

=============================================================================
